---- MODULE Spec2Model ----
(***************************************************************************)
(* Model of the macro_input crate: the prompt / read / trim / parse /     *)
(* retry loop of read_input (behind input!), safe_input! and input_async!.*)
(***************************************************************************)
EXTENDS Integers, Sequences, FiniteSets, TLC

VARIABLES
    variant,    \* which macro the callers of this run use
    ty,         \* the target type $ty / T of the calls
    stdinClosed,\* whether standard input has reached end-of-stream
    reader,     \* input_async!: whether the call's BufReader holds lines it has
                \* taken from standard input and the call has not read
    lock,       \* holder of INPUT_LOCK, or NoOne
    poisoned,   \* INPUT_LOCK's poison flag
    stdinLock,  \* holder of the StdinLock taken by input!, or NoOne
    pc,         \* position of each caller
    onError,    \* whether the calls of this run are given $on_error
    buffer,     \* the String the line is read into
    input,      \* buffer.trim()
    parsed,     \* result of the conversion of input
    readErr,    \* the Err of the last read_line, or NoErr
    field,      \* the caller's $field
    writes,     \* how often the current call has assigned $field
    calls,      \* number of calls each caller has started
    trace,      \* every prompt, flush, read, conversion, diagnostic, observer call
    running     \* input_async!: the task the scheduler is polling, or NoOne

vars == <<variant, ty, stdinClosed, reader, lock, poisoned, stdinLock, pc, onError,
          buffer, input, parsed, readErr, field, writes, calls, trace, running>>

-----------------------------------------------------------------------------
(* Bounds *)

MaxPrompts == 3

Procs == {"t1", "t2"}
NoOne == "none"
NoErr == "ok"
Unset == <<"unset">>
\* The error of a write or flush the sink refused.
WriteFailed == "BrokenPipe"

-----------------------------------------------------------------------------
(* Text: a line is a sequence of one-character strings. *)

Digits == {"0", "1", "2", "3", "4", "5", "6", "7", "8", "9"}

DigitVal(c) ==
    CASE c = "0" -> 0 [] c = "1" -> 1 [] c = "2" -> 2 [] c = "3" -> 3
      [] c = "4" -> 4 [] c = "5" -> 5 [] c = "6" -> 6 [] c = "7" -> 7
      [] c = "8" -> 8 [] c = "9" -> 9

IsWhitespace(c) == c \in {" ", "\n", "\t", "\r"}

RECURSIVE TrimStart(_)
TrimStart(s) ==
    IF s # <<>> /\ IsWhitespace(Head(s)) THEN TrimStart(Tail(s)) ELSE s

RECURSIVE TrimEnd(_)
TrimEnd(s) ==
    IF s # <<>> /\ IsWhitespace(s[Len(s)])
    THEN TrimEnd(SubSeq(s, 1, Len(s) - 1))
    ELSE s

Trim(s) == TrimEnd(TrimStart(s))

I32Max == 2147483647

\* i32's parse multiplies and adds with overflow checks (checked_mul,
\* checked_add / checked_sub); the checks are made here before the
\* arithmetic, so that no intermediate value leaves the 32-bit range.
\* A negative number is accumulated away from zero, down to -(I32Max + 1).
Ok(v) == [ok |-> TRUE, val |-> v, err |-> NoErr]
Err(e) == [ok |-> FALSE, val |-> Unset, err |-> e]

RECURSIVE ParseDigits(_, _, _)
ParseDigits(s, acc, neg) ==
    IF s = <<>> THEN Ok(acc)
    ELSE IF Head(s) \notin Digits THEN Err("InvalidDigit")
    ELSE LET d == DigitVal(Head(s))
             negRoom == IF d = 0 THEN I32Max \div 10 ELSE (I32Max - (d - 1)) \div 10
         IN  IF neg
             THEN IF -acc > negRoom THEN Err("NegOverflow")
                  ELSE ParseDigits(Tail(s), acc * 10 - d, neg)
             ELSE IF acc > (I32Max - d) \div 10 THEN Err("PosOverflow")
                  ELSE ParseDigits(Tail(s), acc * 10 + d, neg)

ParseI32(s) ==
    IF s = <<>> THEN Err("Empty")
    ELSE IF s = <<"+">> \/ s = <<"-">> THEN Err("InvalidDigit")
    ELSE IF Head(s) = "-" THEN ParseDigits(Tail(s), 0, TRUE)
    ELSE IF Head(s) = "+" THEN ParseDigits(Tail(s), 0, FALSE)
    ELSE ParseDigits(s, 0, FALSE)

ParseString(s) == Ok(s)

FromStr(t, s) == IF t = "i32" THEN ParseI32(s) ELSE ParseString(s)

-----------------------------------------------------------------------------
(* Standard input hands out items, each a line of text or a read that     *)
(* fails, until it is closed; from then on read_line returns Ok(0).       *)

Line(t) == [err |-> NoErr, text |-> t]
\* A read that fails after part of a line has arrived: read_line returns
\* the error and leaves in the buffer the bytes it had appended.
Fault == [err |-> "IoError", text |-> <<"4">>]

Line42 == Line(<<" ", "4", "2", " ", "\n">>)
LineAbc == Line(<<"a", "b", "c", "\n">>)

Items == {Line42, LineAbc, Fault}

EndOfStream == Line(<<>>)

\* What the next read of standard input can obtain.
Available == IF stdinClosed THEN {EndOfStream} ELSE Items \cup {EndOfStream}

\* The lines a BufReader holds were taken from the stream by an earlier
\* fill; nobody has seen their text before they are served.
Lines == Items \ {Fault}

-----------------------------------------------------------------------------
(* The transcript *)

Event(p, kind, text, tyname, err) ==
    [p |-> p, call |-> calls[p], kind |-> kind, text |-> text,
     tyname |-> tyname, err |-> err]

\* Prompts written so far by all callers; the retry loops have no bound of
\* their own, so the model stops prompting after MaxPrompts.
Prompts == Len(SelectSeq(trace, LAMBDA e : e.kind = "prompt"))

\* The name written in the prompt: type_name::<T>() in read_input,
\* stringify!($ty) in the macros.
PromptTypeName ==
    IF variant = "blocking"
    THEN (IF ty = "i32" THEN "i32" ELSE "alloc::string::String")
    ELSE ty

\* The name written in the conversion diagnostic: read_input's message is
\* the literal "Expected type." and names no type.
DiagTypeName == IF variant = "blocking" THEN "" ELSE ty

\* read_input binds on_error in an `if let` with an empty body and never
\* calls it; the four-argument arms of the macros call $on_error.
ObserverCalled == variant # "blocking" /\ onError

\* read_input writes nothing on a read failure; the macros eprintln! it.
ReadFailureReported == variant # "blocking"

-----------------------------------------------------------------------------
Init ==
    /\ variant \in {"blocking", "safe", "async"}
    /\ ty \in {"i32", "String"}
    /\ stdinClosed = FALSE
    /\ reader = [p \in Procs |-> FALSE]
    /\ lock = NoOne
    /\ poisoned = FALSE
    /\ stdinLock = NoOne
    /\ pc = [p \in Procs |-> "idle"]
    /\ onError \in BOOLEAN
    /\ buffer = [p \in Procs |-> <<>>]
    /\ input = [p \in Procs |-> <<>>]
    /\ parsed = [p \in Procs |-> Err(NoErr)]
    /\ readErr = [p \in Procs |-> NoErr]
    /\ field = [p \in Procs |-> Unset]
    /\ writes = [p \in Procs |-> 0]
    /\ calls = [p \in Procs |-> 0]
    /\ trace = <<>>
    /\ running = NoOne

\* Threads run in parallel.  Tasks of input_async! share one cooperative
\* scheduler: a task that is being polled runs on, without any other task
\* running, until it awaits a read its BufReader cannot serve at once, or
\* until it ends.
Runnable(p) == variant # "async" \/ running \in {NoOne, p}

\* Faulty variant: every step of a task is a point where the scheduler may
\* run another task.
YieldsEverywhere(p) == running' = NoOne

\* The read is the only await.  It suspends the task unless the BufReader
\* can serve the line from what it holds.
Polled(p) ==
    IF variant # "async" \/ pc'[p] \in {"done", "panicked", "cancelled"}
    THEN running' = NoOne
    ELSE IF pc'[p] = "read"
    THEN running' = IF reader[p] THEN p ELSE NoOne
    ELSE running' = p

\* Faulty variant: the Result of a write is dropped (`let _ = write!(..)`)
\* and the loop goes round again.
WriteErrorIgnored(p) ==
    /\ pc' = [pc EXCEPT ![p] = "prompt"]
    /\ UNCHANGED <<lock, poisoned, stdinLock>>

\* Unwinding drops the guards the caller holds: a MutexGuard dropped while
\* panicking poisons its mutex.
Unwind(p) ==
    /\ pc' = [pc EXCEPT ![p] = "panicked"]
    /\ lock' = IF lock = p THEN NoOne ELSE lock
    /\ poisoned' = (poisoned \/ lock = p)
    /\ stdinLock' = IF stdinLock = p THEN NoOne ELSE stdinLock

\* A caller makes one call after another; a thread that panicked and a task
\* that was cancelled are gone.
CanStart(p) == pc[p] \in {"idle", "done"}

\* Faulty variant: acquisition that does not wait for the holder.
LockNeverWaits == TRUE

\* Faulty variant: a poisoned lock taken as if it were sound
\* (unwrap_or_else(PoisonError::into_inner)).
PoisonIgnored == FALSE

\* INPUT_LOCK.lock() blocks while another thread holds the lock ...
LockFree == lock = NoOne

\* ... and its Result is Err when a holder panicked; unwrap() panics on it.
LockPoisoned == poisoned

\* No call is begun that the model could not let prompt.
WithinBounds == Prompts < MaxPrompts

Begin(p) ==
    /\ calls' = [calls EXCEPT ![p] = @ + 1]
    /\ buffer' = [buffer EXCEPT ![p] = <<>>]
    /\ input' = [input EXCEPT ![p] = <<>>]
    /\ parsed' = [parsed EXCEPT ![p] = Err(NoErr)]
    /\ readErr' = [readErr EXCEPT ![p] = NoErr]
    /\ writes' = [writes EXCEPT ![p] = 0]

\* input!: std::io::stdin().lock(), then read_input.
InputStart(p) ==
    /\ Runnable(p)
    /\ variant = "blocking"
    /\ CanStart(p)
    /\ stdinLock = NoOne
    /\ WithinBounds
    /\ Begin(p)
    /\ stdinLock' = p
    /\ pc' = [pc EXCEPT ![p] = "prompt"]
    /\ UNCHANGED <<variant, ty, onError, stdinClosed, reader, lock, poisoned, field, trace>>
    /\ Polled(p)

\* safe_input!: INPUT_LOCK.lock().unwrap() on a lock that is not poisoned.
SafeInputStart(p) ==
    /\ Runnable(p)
    /\ variant = "safe"
    /\ CanStart(p)
    /\ LockFree
    /\ ~LockPoisoned
    /\ WithinBounds
    /\ Begin(p)
    /\ lock' = p
    /\ pc' = [pc EXCEPT ![p] = "prompt"]
    /\ UNCHANGED <<variant, ty, onError, stdinClosed, reader, poisoned, stdinLock, field, trace>>
    /\ Polled(p)

\* safe_input!: lock() returns Err(PoisonError) and unwrap() panics; the
\* guard inside the error is dropped by the unwinding.
SafeInputPoisoned(p) ==
    /\ Runnable(p)
    /\ variant = "safe"
    /\ CanStart(p)
    /\ LockFree
    /\ LockPoisoned
    /\ Begin(p)
    /\ pc' = [pc EXCEPT ![p] = "panicked"]
    /\ UNCHANGED <<variant, ty, onError, stdinClosed, reader, lock, poisoned, stdinLock, field, trace>>
    /\ Polled(p)

\* input_async!: a new BufReader over tokio's stdin and a new String.
InputAsyncStart(p) ==
    /\ Runnable(p)
    /\ variant = "async"
    /\ CanStart(p)
    /\ WithinBounds
    /\ Begin(p)
    /\ reader' = [reader EXCEPT ![p] = FALSE]
    /\ pc' = [pc EXCEPT ![p] = "prompt"]
    /\ UNCHANGED <<variant, ty, onError, stdinClosed, lock, poisoned, stdinLock, field, trace>>
    /\ Polled(p)

Local == <<buffer, input, parsed, readErr, writes, calls>>

\* A write to the sink succeeds and is recorded, or fails and the unwrap()
\* (or print!/eprintln! itself) panics; the transcript records the failure.
Write(p, ev, next) ==
    \/ /\ trace' = Append(trace, ev)
       /\ pc' = [pc EXCEPT ![p] = next]
       /\ UNCHANGED <<lock, poisoned, stdinLock>>
    \/ /\ trace' = Append(trace, Event(p, "failed", <<>>, "", WriteFailed))
       /\ Unwind(p)

\* write!/print! of "{desc} ({type}): "
Prompt(p) ==
    /\ Runnable(p)
    /\ pc[p] = "prompt"
    /\ Prompts < MaxPrompts
    /\ Write(p, Event(p, "prompt", <<>>, PromptTypeName, NoErr), "flush")
    /\ UNCHANGED <<variant, ty, onError, stdinClosed, reader, field>>
    /\ UNCHANGED Local
    /\ Polled(p)

\* flush().unwrap()
Flush(p) ==
    /\ Runnable(p)
    /\ pc[p] = "flush"
    /\ Write(p, Event(p, "flush", <<>>, "", NoErr), "read")
    /\ UNCHANGED <<variant, ty, onError, stdinClosed, reader, field>>
    /\ UNCHANGED Local
    /\ Polled(p)

\* Faulty variant: the buffer is emptied only of whole lines, so what a
\* failed read left in it stays.
PartialReadKept(old) ==
    IF old # <<>> /\ old[Len(old)] # "\n" THEN old ELSE <<>>

\* Faulty variant: the buffer keeps the text of the attempt before.
StaleBuffer(old) == old

\* `let mut buffer = String::new()` / `buffer.clear()` before the read.
FreshBuffer(old) == <<>>

\* read_line appends the line to the buffer.
ReadInto(buf, text) == buf \o text

\* Faulty variant: a failed read ends the loop.
GivesUpOnReadFailure == "done"

\* Faulty variant: a failed read is retried without a new prompt.
RereadsWithoutPrompt == "read"

\* Where a failed read_line goes: the macros report it, read_input
\* `continue`s at once.
AfterReadFailure == IF ReadFailureReported THEN "readdiag" ELSE "prompt"

\* Faulty variant: the guard outlives the call (std::mem::forget(_lock)).
GuardKept(p) == UNCHANGED <<lock, poisoned, stdinLock>>

\* The guards dropped when the call returns normally.
Release(p) ==
    /\ lock' = IF lock = p THEN NoOne ELSE lock
    /\ stdinLock' = IF stdinLock = p THEN NoOne ELSE stdinLock
    /\ UNCHANGED poisoned

\* Faulty variant: the raw buffer, line terminator included, is converted.
UntrimmedInput(buf) == buf

\* `let input = buffer.trim()`
TrimmedInput(buf) == Trim(buf)

\* Faulty variant: $field is assigned whatever the conversion gave.
AssignsAlways(res) == TRUE

\* `$field = val` stands in the Ok(val) arm alone.
Assigns(res) == res.ok

\* buffer.trim() and the conversion of what was read: Ok(val) assigns
\* $field and leaves the loop, Err goes on to the diagnostic.
Convert(p, buf, sofar) ==
    LET text == TrimmedInput(buf)
        res == FromStr(ty, text)
    IN  /\ input' = [input EXCEPT ![p] = text]
        /\ parsed' = [parsed EXCEPT ![p] = res]
        /\ trace' = Append(sofar, Event(p, "parse", text, "", res.err))
        /\ IF Assigns(res)
           THEN /\ field' = [field EXCEPT ![p] = res.val]
                /\ writes' = [writes EXCEPT ![p] = @ + 1]
           ELSE UNCHANGED <<field, writes>>
        /\ IF res.ok
           THEN /\ pc' = [pc EXCEPT ![p] = "done"]
                /\ Release(p)
           ELSE /\ pc' = [pc EXCEPT ![p] = "diag"]
                /\ UNCHANGED <<lock, poisoned, stdinLock>>

\* One iteration from the read on, given the item read_line obtained (an
\* empty text with no error is Ok(0), end-of-stream): a failed read skips
\* the conversion and leaves what it had appended in the buffer.
Deliver(p, item) ==
    /\ readErr' = [readErr EXCEPT ![p] = item.err]
    /\ LET got == Append(trace, Event(p, "read", item.text, "", item.err))
       IN  IF item.err # NoErr
           THEN /\ buffer' = [buffer EXCEPT ![p] = ReadInto(FreshBuffer(@), item.text)]
                /\ trace' = got
                /\ pc' = [pc EXCEPT ![p] = AfterReadFailure]
                /\ UNCHANGED <<input, parsed, field, writes, lock, poisoned, stdinLock>>
           ELSE /\ buffer' = [buffer EXCEPT ![p] = ReadInto(FreshBuffer(@), item.text)]
                /\ Convert(p, buffer'[p], got)

\* reader.read_line(&mut buffer) on the locked / global standard input,
\* then trim and parse.
Read(p) ==
    /\ Runnable(p)
    /\ variant # "async"
    /\ pc[p] = "read"
    /\ \E item \in Available :
          /\ Deliver(p, item)
          /\ stdinClosed' = (item = EndOfStream)
    /\ UNCHANGED <<variant, ty, onError, reader, calls>>
    /\ Polled(p)

\* The BufReader fills its buffer with what standard input has ready, which
\* may be more than the line read_line hands out: `more` says whether
\* further whole lines stay in it.  When the call ends, `reader` is dropped
\* with what it holds.
ReadAhead(p, more) == reader' = [reader EXCEPT ![p] = more]

\* reader.read_line(&mut buffer).await, then trim and parse.  A task that
\* was not suspended is served a line its BufReader already held; a task
\* that was suspended is resumed with what the stream produced, and any
\* further lines that came with it stay in the BufReader.
ReadAsync(p) ==
    /\ Runnable(p)
    /\ variant = "async"
    /\ pc[p] = "read"
    /\ IF running = p
       THEN /\ \E item \in Lines : Deliver(p, item)
            /\ UNCHANGED stdinClosed
            /\ \E more \in BOOLEAN : ReadAhead(p, more)
       ELSE \E item \in Available :
              /\ Deliver(p, item)
              /\ stdinClosed' = (item = EndOfStream)
              /\ \E more \in (IF item \in Lines THEN BOOLEAN ELSE {FALSE}) :
                    ReadAhead(p, more)
    /\ UNCHANGED <<variant, ty, onError, calls>>
    /\ Polled(p)

\* The future of input_async! is dropped while the task awaits its read
\* (the task is aborted, a timeout or a select! branch wins): no statement
\* after the await runs.
Cancel(p) ==
    /\ variant = "async"
    /\ pc[p] = "read"
    /\ running = NoOne
    /\ pc' = [pc EXCEPT ![p] = "cancelled"]
    /\ UNCHANGED <<variant, ty, onError, stdinClosed, reader, lock, poisoned, stdinLock, field, trace>>
    /\ UNCHANGED Local
    /\ Polled(p)

\* Faulty variant: the handler is never called.
ObserverSkipped == "prompt"

\* Faulty variant: the handler's return ends the loop.
ObserverStopsLoop == "done"

AfterDiagnostic == IF ObserverCalled THEN "observe" ELSE "prompt"

\* The value of $on_error(..) is discarded: the loop goes round again.
AfterObserver == "prompt"

\* writeln!/eprintln! of "Invalid input '{input}'. Expected type ... Error: {err}"
Diagnose(p) ==
    /\ Runnable(p)
    /\ pc[p] = "diag"
    /\ Write(p, Event(p, "diag", input[p], DiagTypeName, parsed[p].err),
             AfterDiagnostic)
    /\ UNCHANGED <<variant, ty, onError, stdinClosed, reader, field>>
    /\ UNCHANGED Local
    /\ Polled(p)

\* eprintln!("Failed to read line: {}", err) / "Input read error: {}"
ReportReadFailure(p) ==
    /\ Runnable(p)
    /\ pc[p] = "readdiag"
    /\ Write(p, Event(p, "readdiag", <<>>, "", readErr[p]), AfterDiagnostic)
    /\ UNCHANGED <<variant, ty, onError, stdinClosed, reader, field>>
    /\ UNCHANGED Local
    /\ Polled(p)

\* $on_error(err) with the read error or the conversion error.
Observe(p) ==
    /\ Runnable(p)
    /\ pc[p] = "observe"
    /\ trace' = Append(trace, Event(p, "observe", <<>>, "",
                       IF readErr[p] # NoErr THEN readErr[p] ELSE parsed[p].err))
    /\ pc' = [pc EXCEPT ![p] = AfterObserver]
    /\ UNCHANGED <<variant, ty, onError, stdinClosed, reader, lock, poisoned, stdinLock, field>>
    /\ UNCHANGED Local
    /\ Polled(p)

Next ==
    \E p \in Procs :
        \/ InputStart(p)
        \/ SafeInputStart(p)
        \/ SafeInputPoisoned(p)
        \/ InputAsyncStart(p)
        \/ Prompt(p)
        \/ Flush(p)
        \/ Read(p)
        \/ ReadAsync(p)
        \/ Cancel(p)
        \/ Diagnose(p)
        \/ ReportReadFailure(p)
        \/ Observe(p)

Spec == Init /\ [][Next]_vars

\* The environment a call is promised to return in: the sink takes every
\* write, and the source yields a line that converts before it ends and
\* before the model's bound on prompts is used up.
SinkAccepts(p) == pc'[p] # "panicked"
SourceYields(p) == pc'[p] # "done" => (~stdinClosed' /\ Prompts < MaxPrompts)

\* The steps of the callers in that environment.  No caller is starved:
\* threads are scheduled by the system, a task awaiting its read is woken
\* when the line is there, and a thread waiting for a lock gets it once
\* the holder has returned.
FairNext ==
    \E p \in Procs :
        \/ InputStart(p)
        \/ SafeInputStart(p)
        \/ InputAsyncStart(p)
        \/ Prompt(p) /\ SinkAccepts(p)
        \/ Flush(p) /\ SinkAccepts(p)
        \/ Read(p) /\ SourceYields(p)
        \/ ReadAsync(p) /\ SourceYields(p)
        \/ Diagnose(p) /\ SinkAccepts(p)
        \/ ReportReadFailure(p) /\ SinkAccepts(p)
        \/ Observe(p)

FairSpec == Init /\ [][FairNext]_vars /\ WF_vars(FairNext)
-----------------------------------------------------------------------------
(* Reading the transcript *)

\* The events of the call p is in (or has last made).
CallEvents(p) == SelectSeq(trace, LAMBDA e : e.p = p /\ e.call = calls[p])

OfKind(ev, kinds) == SelectSeq(ev, LAMBDA e : e.kind \in kinds)

Reads(p) == OfKind(CallEvents(p), {"read"})

Kinds(ev) == [i \in 1..Len(ev) |-> ev[i].kind]

\* The canonical conversion of a line: the target type's from_str on the
\* trimmed text.
Canonical(text) == FromStr(ty, Trim(text))

\* A read that obtained a line (not a failure, not end-of-stream).
IsLine(e) == e.err = NoErr /\ e.text # <<>>
IsEndOfStream(e) == e.err = NoErr /\ e.text = <<>>
ValidLine(e) == IsLine(e) /\ Canonical(e.text).ok
Malformed(e) == IsLine(e) /\ ~Canonical(e.text).ok

\* A failed attempt: a read that failed, or a conversion that failed.
Failure(e) == e.kind \in {"read", "parse"} /\ e.err # NoErr

\* A caller that is inside the retry loop.
InLoop(p) == pc[p] \in {"prompt", "flush", "read", "diag", "readdiag", "observe"}

-----------------------------------------------------------------------------
\* C1: in every variant, a call whose first line converts returns after one
\* iteration: its whole transcript is one prompt (with its flush), one read
\* and one conversion, with no diagnostic and no observer call, and $field
\* holds the canonical conversion of the trimmed line.
C1_FirstValidLineReturns ==
    \A p \in Procs :
        LET rs == Reads(p)
        IN  (rs # <<>> /\ ValidLine(rs[1])) =>
                /\ pc[p] = "done"
                /\ Kinds(CallEvents(p)) = <<"prompt", "flush", "read", "parse">>
                /\ field[p] = Canonical(rs[1].text).val

C1_Witness ==
    \E p \in Procs :
        /\ ty = "i32"
        /\ pc[p] = "done"
        /\ Len(CallEvents(p)) = 4
        /\ Reads(p)[1].text = Line42.text
        /\ field[p] = 42

\* C2: input! with a handler, N malformed lines then a valid one: the call
\* does not return on a malformed line, writes one diagnostic with the
\* literal text per malformed line, invokes the observer once per malformed
\* attempt, and returns the valid value on attempt N+1.
C2_ObserverOncePerMalformedLine ==
    (variant = "blocking" /\ onError) =>
        \A p \in Procs :
            LET ev == CallEvents(p)
                rs == Reads(p)
                bad == SelectSeq(rs, Malformed)
                diags == OfKind(ev, {"diag"})
            IN  /\ (rs # <<>> /\ Malformed(rs[Len(rs)])) => pc[p] # "done"
                /\ pc[p] \in {"prompt", "done"} =>
                      /\ Len(diags) = Len(bad)
                      /\ \A i \in 1..Len(bad) : diags[i].text = Trim(bad[i].text)
                      /\ Len(OfKind(ev, {"observe"})) = Len(bad)
                /\ (pc[p] = "done" /\ \A i \in 1..Len(rs) : IsLine(rs[i])) =>
                      /\ field[p] = Canonical(rs[Len(rs)].text).val
                      /\ Len(OfKind(ev, {"prompt"})) = Len(bad) + 1

\* C3: with safe_input!, the transcript is a concatenation of whole per-call
\* sequences (no event of one call lies between two events of another) and
\* at most one thread is inside the loop at any moment.
C3_CallsNotInterleaved ==
    variant = "safe" =>
        /\ \A i, k \in 1..Len(trace) :
              (i < k /\ trace[i].p = trace[k].p /\ trace[i].call = trace[k].call) =>
                  (trace[i + 1].p = trace[i].p /\ trace[i + 1].call = trace[i].call)
        /\ Cardinality({p \in Procs : InLoop(p)}) <= 1

C3_Witness ==
    /\ variant = "safe"
    /\ \E p, q \in Procs :
          /\ p # q
          /\ pc[p] = "done"
          /\ InLoop(q)
          /\ Len(OfKind(CallEvents(p), {"prompt"})) >= 2
          /\ Len(OfKind(CallEvents(q), {"prompt"})) >= 1

\* C4: a read that finds the source at end-of-stream ends the call with a
\* fatal outcome: the call neither goes on retrying nor returns a value.
C4_EndOfStreamIsFatal ==
    \A p \in Procs :
        LET rs == Reads(p)
        IN  (rs # <<>> /\ IsEndOfStream(rs[Len(rs)])) => pc[p] = "panicked"

\* C5: in every variant a failed conversion is followed, before the next
\* prompt, by one diagnostic holding the literal trimmed text, the target
\* type's display name and the conversion error.
C5_DiagnosticNamesTextTypeAndError ==
    \A p \in Procs :
        LET ev == CallEvents(p)
        IN  \A i \in 1..Len(ev) :
                (ev[i].kind = "parse" /\ ev[i].err # NoErr /\ i < Len(ev)
                                     /\ ev[i + 1].kind # "failed") =>
                    /\ ev[i + 1].kind = "diag"
                    /\ ev[i + 1].text = ev[i].text
                    /\ ev[i + 1].err = ev[i].err
                    /\ ev[i + 1].tyname \in {ty, PromptTypeName}

\* C6: in every variant a failed read is followed by a diagnostic, then by
\* the observer (when one was supplied) called with the read error, then by
\* the next prompt; no conversion is attempted and the call does not return.
C6_ReadFailureReportedAndObserved ==
    \A p \in Procs :
        LET ev == CallEvents(p)
            after == IF onError THEN <<"readdiag", "observe", "prompt">>
                                ELSE <<"readdiag", "prompt">>
        IN  \A i \in 1..Len(ev) :
                (ev[i].kind = "read" /\ ev[i].err # NoErr) =>
                    /\ \A j \in 1..Len(after) :
                          (i + j <= Len(ev) /\ ev[i + j].kind # "failed") =>
                              /\ ev[i + j].kind = after[j]
                              /\ ev[i + j].kind # "prompt" => ev[i + j].err = ev[i].err
                    /\ i = Len(ev) => pc[p] \notin {"done", "prompt"}

\* C7: safe_input! and input_async! with a handler: the observer is invoked
\* once per failed attempt (read failure or conversion failure), right after
\* that failure's diagnostic and with that failure's error, and never on the
\* successful attempt; between attempts and at the return the number of
\* observer calls equals the number of failures.
C7_ObserverOncePerFailure ==
    (variant \in {"safe", "async"} /\ onError) =>
        \A p \in Procs :
            LET ev == CallEvents(p)
            IN  /\ \A i \in 1..Len(ev) :
                      /\ ev[i].kind = "observe" =>
                            /\ i > 2
                            /\ ev[i - 1].kind \in {"diag", "readdiag"}
                            /\ Failure(ev[i - 2])
                            /\ ev[i].err = ev[i - 2].err
                      /\ (Failure(ev[i]) /\ i + 2 <= Len(ev)) =>
                            /\ ev[i + 1].kind \in {"diag", "readdiag"}
                            /\ ev[i + 2].kind = "observe"
                /\ pc[p] \in {"prompt", "flush", "read", "done"} =>
                      Len(OfKind(ev, {"observe"})) = Len(SelectSeq(ev, Failure))
                /\ (pc[p] = "done" /\ ev # <<>>) => ev[Len(ev)].kind = "parse"

C7_Witness ==
    /\ variant \in {"safe", "async"}
    /\ onError
    /\ \E p \in Procs :
          LET ev == CallEvents(p)
          IN  /\ pc[p] = "done"
              /\ Len(OfKind(ev, {"observe"})) = 2
              /\ Len(OfKind(ev, {"readdiag"})) = 1
              /\ Len(OfKind(ev, {"diag"})) = 1

Shown(kind, text, tyname, err) ==
    [kind |-> kind, text |-> text, tyname |-> tyname, err |-> err]

ExpectedAttempt(r) ==
    <<Shown("prompt", <<>>, PromptTypeName, NoErr), Shown("flush", <<>>, "", NoErr),
      Shown("read", r.text, "", r.err)>>
    \o (IF r.err # NoErr
        THEN (IF variant = "blocking" THEN <<>>
              ELSE <<Shown("readdiag", <<>>, "", r.err)>>)
        ELSE LET res == Canonical(r.text)
             IN  <<Shown("parse", Trim(r.text), "", res.err)>>
                 \o (IF res.ok THEN <<>>
                     ELSE <<Shown("diag", Trim(r.text), DiagTypeName, res.err)>>))

RECURSIVE Expected(_)
Expected(rs) ==
    IF rs = <<>> THEN <<>> ELSE ExpectedAttempt(Head(rs)) \o Expected(Tail(rs))

Unattributed(ev) ==
    [i \in 1..Len(ev) |-> Shown(ev[i].kind, ev[i].text, ev[i].tyname, ev[i].err)]

\* C9: the observer never changes the retry decision: between attempts and
\* at the return, the prompts, reads, conversions and diagnostics of a call
\* are those its reads alone determine, with or without a handler; a call
\* returns only on a line that converts, with that line's value; and
\* without a handler no observer call is made.
C9_ObserverDoesNotAlterRetry ==
    \A p \in Procs :
        LET ev == CallEvents(p)
            rs == Reads(p)
            written == SelectSeq(ev, LAMBDA e : e.kind # "observe")
        IN  /\ (pc[p] \in {"prompt", "done"} /\ calls[p] > 0) =>
                  Unattributed(written) = Expected(rs)
            /\ (pc[p] = "done" /\ calls[p] > 0) =>
                  /\ rs # <<>>
                  /\ rs[Len(rs)].err = NoErr
                  /\ Canonical(rs[Len(rs)].text).ok
                  /\ field[p] = Canonical(rs[Len(rs)].text).val
            /\ ~onError => OfKind(ev, {"observe"}) = <<>>

C9_Witness ==
    /\ ~onError
    /\ \E p \in Procs :
          LET ev == CallEvents(p)
              rs == Reads(p)
          IN  /\ pc[p] = "done"
              /\ Len(rs) = 3
              /\ Malformed(rs[1]) /\ Malformed(rs[2])
              /\ Len(OfKind(ev, {"diag"})) = 2
              /\ OfKind(ev, {"observe"}) = <<>>

\* C10: once INPUT_LOCK is poisoned, no safe_input! call enters the retry
\* loop or performs any prompt, read or diagnostic: the lock stays free, the
\* transcript stays as it is, and every caller is outside the loop.
C10_PoisonedLockAdmitsNoCall ==
    [][(variant = "safe" /\ poisoned) =>
          /\ trace' = trace
          /\ lock' = NoOne
          /\ poisoned'
          /\ \A p \in Procs : ~InLoop(p)']_vars

\* A call made after the poisoning has panicked without any I/O.
C10_Witness ==
    /\ variant = "safe"
    /\ poisoned
    /\ \E p \in Procs :
          /\ pc[p] = "panicked"
          /\ calls[p] > 0
          /\ CallEvents(p) = <<>>

-----------------------------------------------------------------------------
\* C11: safe_input! takes INPUT_LOCK once, before the first prompt, and
\* holds it through every retry: a thread is inside its call exactly while
\* it holds the lock, so the lock is neither dropped between iterations nor
\* kept by a thread whose call has returned or was abandoned by a panic.
C11_LockHeldForWholeCall ==
    variant = "safe" =>
        /\ \A p \in Procs : InLoop(p) <=> lock = p
        /\ \A p \in Procs :
              CallEvents(p) # <<>> /\ pc[p] \in {"done", "panicked"} => lock # p
        /\ lock = NoOne => \A p \in Procs : pc[p] \in {"idle", "done", "panicked"}

\* A thread that still holds the lock when it prompts again after a failed
\* attempt.
C11_Witness ==
    \E p \in Procs :
        /\ variant = "safe"
        /\ lock = p
        /\ pc[p] = "flush"
        /\ Len(Reads(p)) >= 1
        /\ Len(OfKind(CallEvents(p), {"prompt"})) = Len(Reads(p)) + 1

\* C12: in every variant a failed write or flush of the prompt or of a
\* diagnostic ends the call at once with a panic: it is the last thing the
\* caller does (no read, conversion or retry follows), the call does not
\* return, and the caller's later state shows no value delivered by it.
C12_WriteFailureIsFatal ==
    \A i \in 1..Len(trace) :
        trace[i].kind = "failed" =>
            /\ pc[trace[i].p] = "panicked"
            /\ trace[i].call = calls[trace[i].p]
            /\ \A k \in (i + 1)..Len(trace) : trace[k].p # trace[i].p
            /\ lock # trace[i].p /\ stdinLock # trace[i].p

\* A diagnostic that could not be written after a malformed line, while
\* the other caller goes on with a call of its own.
C12_Witness ==
    \E p, q \in Procs :
        LET ev == CallEvents(p)
        IN  /\ p # q
            /\ pc[p] = "panicked"
            /\ Len(ev) = 5
            /\ ev[4].kind = "parse" /\ ev[4].err # NoErr
            /\ ev[5].kind = "failed"
            /\ trace[Len(trace)].p = q

\* C13: in input_async! the read is the only point of an iteration where
\* the task is suspended: a task that is past its prompt and not awaiting
\* the read is the one being polled, and the transcript passes from one
\* task to another only after a flush (the task then awaits its read) or
\* after the end of a call, and then to a resumed read or to the first
\* prompt (written or refused) of a call.  Nothing else orders the tasks: that the calls of two
\* tasks interleave is what the witness reaches.
C13_ReadIsTheOnlySuspension ==
    variant = "async" =>
        /\ \A p \in Procs :
              pc[p] \in {"prompt", "flush", "diag", "readdiag", "observe"} => running = p
        /\ \A i \in 1..(Len(trace) - 1) :
              trace[i].p # trace[i + 1].p =>
                  /\ \/ trace[i].kind = "flush"
                     \/ trace[i].kind = "parse" /\ trace[i].err = NoErr
                     \/ trace[i].kind = "failed"
                  /\ \/ trace[i + 1].kind = "read"
                     \/ /\ trace[i + 1].kind \in {"prompt", "failed"}
                        /\ \A k \in 1..i :
                              ~(trace[k].p = trace[i + 1].p /\ trace[k].call = trace[i + 1].call)

\* Between the prompt of one task and that task's return, the other task
\* has prompted and has read.
C13_Witness ==
    /\ variant = "async"
    /\ \E p, q \in Procs :
          \E i, j, k, l \in 1..Len(trace) :
              /\ p # q /\ i < j /\ j < k /\ k < l
              /\ trace[i].p = p /\ trace[i].kind = "prompt"
              /\ trace[j].p = q /\ trace[j].kind = "prompt"
              /\ trace[k].p = q /\ trace[k].kind = "read"
              /\ trace[l].p = p /\ trace[l].kind = "parse" /\ trace[l].err = NoErr
              /\ trace[l].call = trace[i].call
              /\ pc[p] = "done"

\* A read whose text converts.
Converts(e) == e.err = NoErr /\ Canonical(e.text).ok

\* C14: the loop has one exit, the successful conversion, and no bound on
\* the retries: a call that has returned read N lines that failed and then
\* one that converts, in N+1 iterations, for every N the reads allow; a
\* call that has read no line that converts has not returned; and with a
\* source that yields a convertible line and a sink that takes the writes,
\* every call that has begun eventually returns.
C14_ReturnsOnFirstConvertibleLine ==
    /\ [](\A p \in Procs :
            LET ev == CallEvents(p)
                rs == Reads(p)
                n == Len(rs)
            IN  /\ (pc[p] = "done" /\ calls[p] > 0) =>
                      /\ n > 0
                      /\ Converts(rs[n])
                      /\ \A i \in 1..(n - 1) : ~Converts(rs[i])
                      /\ Len(OfKind(ev, {"prompt"})) = n
                      /\ Len(OfKind(ev, {"flush"})) = n
                /\ (\A i \in 1..n : ~Converts(rs[i])) => pc[p] # "done"
                /\ InLoop(p) => \A i \in 1..n : ~Converts(rs[i]))
    /\ \A p \in Procs : InLoop(p) ~> (pc[p] = "done")

\* A call that returned on its third line, after a line that did not
\* convert and a read that failed.
C14_Witness ==
    \E p \in Procs :
        LET rs == Reads(p)
        IN  /\ ty = "i32"
            /\ pc[p] = "done"
            /\ Len(rs) = 3
            /\ Malformed(rs[1])
            /\ rs[2].err # NoErr
            /\ rs[3].text = Line42.text
            /\ field[p] = 42

\* C15: in every variant each read of a call comes right after that call's
\* prompt and the flush of it, in that order, so the prompt is written
\* again after every failed attempt; the call has written as many prompts
\* as it has begun reads.  Where callers exclude each other (input!,
\* safe_input!) nothing at all lies between the flush and the read.
C15_PromptAndFlushBeforeEachRead ==
    \A p \in Procs :
        LET ev == CallEvents(p)
            prompts == Len(OfKind(ev, {"prompt"}))
            flushes == Len(OfKind(ev, {"flush"}))
            begun == Len(Reads(p)) + (IF pc[p] = "read" THEN 1 ELSE 0)
        IN  /\ \A i \in 1..Len(ev) :
                  /\ ev[i].kind = "read" =>
                        i > 2 /\ ev[i - 1].kind = "flush" /\ ev[i - 2].kind = "prompt"
                  /\ ev[i].kind = "flush" => i > 1 /\ ev[i - 1].kind = "prompt"
                  /\ (ev[i].kind = "prompt" /\ i > 1) => ev[i - 1].kind # "flush"
            /\ pc[p] = "read" => (ev # <<>> /\ ev[Len(ev)].kind = "flush")
            /\ (InLoop(p) \/ pc[p] = "done") =>
                  /\ flushes = begun
                  /\ prompts = begun + (IF pc[p] = "flush" THEN 1 ELSE 0)
            /\ variant # "async" =>
                  \A i \in 1..Len(trace) :
                      trace[i].kind = "read" =>
                          /\ i > 2
                          /\ trace[i - 1].kind = "flush" /\ trace[i - 1].p = trace[i].p
                          /\ trace[i - 2].kind = "prompt" /\ trace[i - 2].p = trace[i].p

\* A caller awaiting its third read, after a read that failed and a line
\* that did not convert, with its third prompt written and flushed.
C15_Witness ==
    \E p \in Procs :
        LET ev == CallEvents(p)
            rs == Reads(p)
        IN  /\ pc[p] = "read"
            /\ Len(rs) = 2
            /\ rs[1].err # NoErr
            /\ Malformed(rs[2])
            /\ Len(OfKind(ev, {"prompt"})) = 3
            /\ ev[Len(ev)].kind = "flush"

\* C16: in all three variants the text converted on an attempt is the
\* trimmed text of the line read on that same attempt: the buffer holds
\* what the last read put into it and nothing of an earlier attempt, be it
\* a line that did not convert or the part of a line a failed read left.
C16_ConvertsOnlyTheLineJustRead ==
    \A p \in Procs :
        LET ev == CallEvents(p)
            rs == Reads(p)
        IN  /\ \A i \in 1..Len(ev) :
                  /\ ev[i].kind = "parse" =>
                        /\ i > 1
                        /\ ev[i - 1].kind = "read"
                        /\ ev[i - 1].err = NoErr
                        /\ ev[i].text = Trim(ev[i - 1].text)
                        /\ ev[i].err = Canonical(ev[i - 1].text).err
                  /\ (ev[i].kind = "read" /\ ev[i].err = NoErr) =>
                        i < Len(ev) /\ ev[i + 1].kind = "parse"
            /\ rs # <<>> =>
                  /\ buffer[p] = rs[Len(rs)].text
                  /\ rs[Len(rs)].err = NoErr => input[p] = Trim(buffer[p])

\* A call whose third read follows a line that did not convert and a read
\* that failed part-way, and converts the third line alone.
C16_Witness ==
    \E p \in Procs :
        LET rs == Reads(p)
        IN  /\ ty = "i32"
            /\ pc[p] = "done"
            /\ Len(rs) = 3
            /\ Malformed(rs[1])
            /\ rs[2].err # NoErr /\ rs[2].text # <<>>
            /\ rs[3].text = Line42.text
            /\ buffer[p] = Line42.text
            /\ input[p] = <<"4", "2">>

\* C17: a call assigns its target field at most once, by the attempt that
\* converts and with that attempt's value: every other step of any caller
\* (a failed read or conversion, a diagnostic, an observer call, a write
\* that panics, the cancellation of an input_async! task suspended at its
\* read) leaves the field as it was, so a call that has not returned, was
\* cancelled or ended in a panic has not touched it.
C17_FieldWrittenOnlyBySuccess ==
    /\ [](\A p \in Procs :
            /\ writes[p] <= 1
            /\ (InLoop(p) \/ pc[p] \in {"idle", "panicked", "cancelled"}) => writes[p] = 0
            /\ (pc[p] = "done" /\ calls[p] > 0) =>
                  /\ writes[p] = 1
                  /\ field[p] = Canonical(Reads(p)[Len(Reads(p))].text).val)
    /\ [][\A p \in Procs :
            /\ \/ writes'[p] = writes[p]
               \/ writes'[p] = 0 /\ calls'[p] = calls[p] + 1
               \/ /\ writes'[p] = writes[p] + 1
                  /\ pc[p] = "read" /\ pc'[p] = "done"
                  /\ parsed'[p].ok
            /\ (writes'[p] = writes[p] /\ calls'[p] = calls[p]) =>
                  field'[p] = field[p]
            /\ calls'[p] # calls[p] => field'[p] = field[p]]_vars

\* A task whose first call returned 42 and whose second call was cancelled
\* at its read: the field still holds 42.
C17_Witness ==
    \E p \in Procs :
        /\ variant = "async"
        /\ ty = "i32"
        /\ pc[p] = "cancelled"
        /\ calls[p] = 2
        /\ Len(CallEvents(p)) = 2
        /\ writes[p] = 0
        /\ field[p] = 42

\* C18: across the calls that read standard input one after another, every
\* line taken from the source is read by exactly one attempt: no call ends
\* while the reader it built still holds lines it took from the source and
\* did not read, so the line after the one a call accepted is the first
\* line the next call reads, under input_async! as under the others.
C18_NoLineLostBetweenCalls ==
    \A p \in Procs : pc[p] \in {"done", "panicked", "cancelled"} => ~reader[p]

====
